---- MODULE Spec2Model ----
(***************************************************************************)
(* topo_order_commits.py: locate the repository, enumerate the local       *)
(* branches, build the commit graph from the object store, sort it with    *)
(* Kahn's algorithm and print it with sticky starts and sticky ends.       *)
(*                                                                         *)
(* Text (paths, hashes, branch names, payloads, output lines) is a         *)
(* sequence of one-character strings, so that split, strip, join, sorted   *)
(* and slicing are computed character by character as Python does.         *)
(* A Python set is a TLA+ set; every iteration over a set (for, list(),    *)
(* join, pop) takes an arbitrary order.  A dict is a record of its keys in *)
(* insertion order and its values.                                         *)
(*                                                                         *)
(* The file system is the environment.  The working directory, the         *)
(* directory holding .git and the branch files are fixed by Init.  An      *)
(* object file is drawn when parents() first opens it and kept in          *)
(* `objects` from then on, so a hash read twice would see the same file.   *)
(* Hashes are opaque to the program (it only compares them), so the        *)
(* environment names them in order of first appearance: the branch files   *)
(* use the first hashes Hash(1), Hash(2), ..., and a payload names hashes  *)
(* already seen or the next unused ones.                                   *)
(***************************************************************************)
EXTENDS Integers, Sequences, FiniteSets, TLC

\* ---------------------------------------------------------------- bounds
NumHashes == 3
MaxEdges == 3
NumBranches == 2

\* ------------------------------------------------------------------ text
NL == "\n"
SP == " "

\* The characters of the model in code-point order (Python compares str by
\* code point).
Alphabet ==
    << "\n", " ", "/", "0", "1", "2", "3", "4", "5", "6", "7", "8", "9", "=",
       "a", "c", "d", "e", "f", "g", "h", "i", "m", "n", "o", "p", "r", "s",
       "t", "u", "v", "x" >>

Ord(c) == CHOOSE k \in 1..Len(Alphabet) : Alphabet[k] = c

\* a < b for str: the first differing character decides, a proper prefix is
\* smaller.
RECURSIVE StrLess(_, _)
StrLess(a, b) ==
    IF b = << >> THEN FALSE
    ELSE IF a = << >> THEN TRUE
    ELSE IF Head(a) = Head(b) THEN StrLess(Tail(a), Tail(b))
    ELSE Ord(Head(a)) < Ord(Head(b))

\* s[n:]
Drop(s, n) == IF n >= Len(s) THEN << >> ELSE SubSeq(s, n + 1, Len(s))

\* s[:n]
Take(s, n) == IF n >= Len(s) THEN s ELSE SubSeq(s, 1, n)

\* s.replace(a, b) for one-character a and b
Replace(s, a, b) == [k \in 1..Len(s) |-> IF s[k] = a THEN b ELSE s[k]]

\* s.split(sep) for a one-character sep: adjacent separators give empty
\* strings, and the result always has at least one element.
RECURSIVE Split(_, _)
Split(s, sep) ==
    IF \A k \in 1..Len(s) : s[k] # sep THEN << s >>
    ELSE LET k == CHOOSE j \in 1..Len(s) :
                      s[j] = sep /\ \A l \in 1..(j - 1) : s[l] # sep
         IN  << Take(s, k - 1) >> \o Split(Drop(s, k), sep)

IsSpace(c) == c \in {SP, NL}

\* s.strip()
RECURSIVE LStrip(_)
LStrip(s) == IF s # << >> /\ IsSpace(Head(s)) THEN LStrip(Tail(s)) ELSE s

RECURSIVE RStrip(_)
RStrip(s) ==
    IF s # << >> /\ IsSpace(s[Len(s)]) THEN RStrip(Take(s, Len(s) - 1)) ELSE s

Strip(s) == LStrip(RStrip(s))

\* sep.join(items) for a sequence of strings
RECURSIVE Join(_, _)
Join(sep, items) ==
    IF items = << >> THEN << >>
    ELSE IF Len(items) = 1 THEN items[1]
    ELSE items[1] \o sep \o Join(sep, Tail(items))

\* Every order in which a Python set can be iterated.
Orders(S) ==
    {s \in [1..Cardinality(S) -> S] :
        \A a, b \in 1..Cardinality(S) : a # b => s[a] # s[b]}

\* sorted(S) for a set of strings
RECURSIVE SortedStr(_)
SortedStr(S) ==
    IF S = {} THEN << >>
    ELSE LET m == CHOOSE x \in S : \A y \in S \ {x} : StrLess(x, y)
         IN  << m >> \o SortedStr(S \ {m})

\* --------------------------------------------------------- names and paths
Digit == << "1", "2", "3", "4", "5", "6", "7", "8", "9" >>

\* The n-th commit hash of the environment: a two-character directory part
\* and a file part, as parents() splits it.
Hash(n) == << "c", "0", Digit[n] >>

Hashes == {Hash(n) : n \in 1..NumHashes}

BranchNameList ==
    << << "m", "a", "i", "n" >>,
       << "d", "e", "v" >>,
       << "m", "a" >>,
       << "f", "/", "x" >> >>

BranchNames == {BranchNameList[k] : k \in 1..NumBranches}

RootDir == << "/" >>
TopDir == << "/", "r" >>
SubDir == << "/", "r", "/", "s" >>
OutsideDir == << "/", "o" >>

DotGit == << ".", "g", "i", "t" >>
GitRefsHeads ==
    << "/", ".", "g", "i", "t", "/", "r", "e", "f", "s", "/",
       "h", "e", "a", "d", "s", "/" >>
RefsHeads == << "/", "r", "e", "f", "s", "/", "h", "e", "a", "d", "s" >>
PARENT == << "p", "a", "r", "e", "n", "t" >>

\* os.path.join(a, b) for a relative b
PathJoin(a, b) == IF a[Len(a)] = "/" THEN a \o b ELSE a \o << "/" >> \o b

\* os.path.dirname(p): the text before the last slash, the root for a
\* top-level entry.
Dirname(p) ==
    LET k == CHOOSE j \in 1..Len(p) :
                 p[j] = "/" /\ \A l \in (j + 1)..Len(p) : p[l] # "/"
    IN  IF k = 1 THEN RootDir ELSE Take(p, k - 1)

\* ------------------------------------------------------------ object files
NUL == "NUL"

\* "commit 9" NUL "tree t" newline
Header ==
    << "c", "o", "m", "m", "i", "t", " ", "9", NUL, "t", "r", "e", "e", " ",
       "t", NL >>

AuthorLine == << "a", "u", "t", "h", "o", "r", " ", "a", NL >>

\* "parent <hash>" newline, once per parent
RECURSIVE ParentLines(_)
ParentLines(ps) ==
    IF ps = << >> THEN << >>
    ELSE PARENT \o << SP >> \o Head(ps) \o << NL >> \o ParentLines(Tail(ps))

\* The decompressed payload of a commit object as git writes it: header,
\* parent lines, the other fields, an empty line and the message lines.
CommitText(ps, message) ==
    Header \o ParentLines(ps) \o AuthorLine \o << NL >> \o message

\* "fix" newline
PlainMessage == << "f", "i", "x", NL >>

\* "undo parent c01" newline: the word parent inside the message
ProseMessage ==
    << "u", "n", "d", "o", SP >> \o PARENT \o << SP, "c", "0", "1", NL >>

\* parents(), lines 97-102: the path parents() opens for a hash, under the
\* WORKING directory.
ObjectPath(dir, hash) ==
    dir \o << "/" >> \o DotGit
        \o << "/", "o", "b", "j", "e", "c", "t", "s", "/" >>
        \o Take(hash, 2) \o << "/" >> \o Drop(hash, 2)

\* parents(), lines 114-121, on the decompressed text: every token after a
\* token 'parent', unless that next token is the last one.
parents(text) ==
    LET tokens == Split(Replace(text, NL, SP), SP)
    IN  {tokens[k + 1] :
            k \in {j \in 1..Len(tokens) :
                      tokens[j] = PARENT /\ j + 1 < Len(tokens)}}

\* ------------------------------------------------------------------ graph
\* CommitNode.__init__
CommitNode(commit_hash) ==
    [commit_hash |-> commit_hash, parents |-> {}, children |-> {}]

EmptyDict == [keys |-> << >>, node |-> << >>]

Has(d, k) == k \in DOMAIN d.node

\* d[k] = v
DictSet(d, k, v) ==
    IF Has(d, k) THEN [d EXCEPT !.node[k] = v]
    ELSE [keys |-> Append(d.keys, k), node |-> d.node @@ (k :> v)]

\* make_commit_graph, line 150: the node made for a parent first met as a
\* parent; the hash handed to CommitNode is curr_hash.
CreateParent(parent, curr_hash) == CommitNode(curr_hash)

\* Faulty variant: the parent does not learn of its child.
ForgetChild(result, parent, curr_hash) == result

\* make_commit_graph, line 155: curr_parent.children.add(curr_hash)
AddChild(result, parent, curr_hash) ==
    [result EXCEPT !.node[parent].children = @ \cup {curr_hash}]

\* Faulty variant: no parent is put on the stack.
PushNothing(stack, visited, parent) == stack

\* make_commit_graph, lines 157-158
PushParent(stack, visited, parent) ==
    IF parent \notin visited THEN stack \cup {parent} ELSE stack

\* make_commit_graph, lines 147-158: the loop over the parents of curr_hash,
\* taken in the order `order`.
RECURSIVE LinkParents(_, _, _, _, _)
LinkParents(result, stack, visited, curr_hash, order) ==
    IF order = << >> THEN [result |-> result, stack |-> stack]
    ELSE LET parent == Head(order)
             r1 == IF Has(result, parent) THEN result
                   ELSE DictSet(result, parent, CreateParent(parent, curr_hash))
             r2 == [r1 EXCEPT !.node[curr_hash].parents = @ \cup {parent}]
             r3 == AddChild(r2, parent, curr_hash)
             s1 == PushParent(stack, visited, parent)
         IN  LinkParents(r3, s1, visited, curr_hash, Tail(order))

\* topo_sort, lines 169-172: the childless nodes in dict order
RECURSIVE SelectChildless(_, _)
SelectChildless(graph, keys) ==
    IF keys = << >> THEN << >>
    ELSE (IF graph.node[Head(keys)].children = {} THEN << Head(keys) >>
          ELSE << >>) \o SelectChildless(graph, Tail(keys))

\* Faulty variant: every node seeds the queue.
InitialQueueAll(graph) == graph.keys

\* topo_sort, lines 169-172
InitialQueue(graph) == SelectChildless(graph, graph.keys)

\* Faulty variant: a parent is enqueued as soon as one child is dequeued.
EnqueueAlways(graph, phash) == TRUE

\* topo_sort, lines 184-185
ChildlessParent(graph, phash) == graph.node[phash].children = {}

\* topo_sort, lines 180-186: the loop over the parents of the dequeued
\* node, taken in the order `order`.
RECURSIVE ReleaseParents(_, _, _, _)
ReleaseParents(graph, queue, curr_hash, order) ==
    IF order = << >> THEN [graph |-> graph, queue |-> queue]
    ELSE LET phash == Head(order)
             g1 == [graph EXCEPT !.node[curr_hash].parents = @ \ {phash}]
             g2 == [g1 EXCEPT !.node[phash].children = @ \ {curr_hash}]
             q1 == IF ChildlessParent(g2, phash) THEN Append(queue, phash)
                   ELSE queue
         IN  ReleaseParents(g2, q1, curr_hash, Tail(order))

\* ------------------------------------------------------------------ state
VARIABLES
    cwd,                  \* os.getcwd()
    git_top,              \* file system: the directory that holds .git
    refs,                 \* file system: branch file (relative path) -> text
    messages,             \* file system: the messages commits may carry
    objects,              \* file system: the object files opened so far
    pc,                   \* the statement topo_order_commits() is at
    exit_code,            \* the process's exit status once pc = "exited"
    git_dirpath,          \* topo_order_commits: git_dirpath
    local_branches_dict,  \* topo_order_commits: local_branches_dict
    stack,                \* make_commit_graph: stack
    visited,              \* make_commit_graph: visited
    reads,                \* hash -> the calls of parents() made for it
    heap,                 \* the two graph objects: make_commit_graph's
                          \* result (commit_graph) and deepcopy's new one
    copied_graph,         \* topo_sort: which object copied_graph refers to
    queue,                \* topo_sort: queue
    ordered_graph,        \* topo_sort: result, then the returned list
    i,                    \* print_topo_sort: i
    discontinuity,        \* print_topo_sort: discontinuity
    stdout,               \* the lines printed to standard output
    stderr                \* the messages written to standard error

vars ==
    << cwd, git_top, refs, messages, objects, pc, exit_code, git_dirpath,
       local_branches_dict, stack, visited, reads, heap, copied_graph, queue,
       ordered_graph, i, discontinuity, stdout, stderr >>

fs == << cwd, git_top, refs, messages >>
build_vars == << stack, visited, reads >>
sort_vars == << copied_graph, queue, ordered_graph >>
print_vars == << i, discontinuity, stdout >>

commit_graph == heap.graph

\* ------------------------------------------------------------ environment
Max(S) == CHOOSE x \in S : \A y \in S : y <= x

\* Branch k points at hash c[k], or has no file when c[k] = 0; hashes are
\* numbered in order of first use.
RefAssignments ==
    {c \in [1..NumBranches -> 0..NumHashes] :
        \A k \in 1..NumBranches :
            c[k] <= 1 + Max({0} \cup {c[j] : j \in 1..(k - 1)})}

\* The text of a branch file: the hash and a newline
RefFiles(c) ==
    [b \in {BranchNameList[k] : k \in {j \in 1..NumBranches : c[j] # 0}} |->
        Hash(c[CHOOSE k \in 1..NumBranches : BranchNameList[k] = b])
            \o << NL >>]

\* os.path.exists(path) for a path that ends in .git
Exists(path) == path = PathJoin(git_top, DotGit)

\* The hashes the environment has named so far: branch tips and every hash
\* a payload read so far mentions.
Seen == {h \in Hashes : h \in DOMAIN local_branches_dict \/ Has(heap.graph, h)}

Fresh(n) == {Hash(k) : k \in (Cardinality(Seen) + 1)..(Cardinality(Seen) + n)}

NoFile == << >>

\* The parent links read so far
RECURSIVE EdgeCount(_, _)
EdgeCount(graph, keys) ==
    IF keys = << >> THEN 0
    ELSE Cardinality(graph.node[Head(keys)].parents)
         + EdgeCount(graph, Tail(keys))

\* What the object file of an unread hash may hold: a commit whose parents
\* keep the store within MaxEdges parent links.
Payloads ==
    LET room == MaxEdges - EdgeCount(heap.graph, heap.graph.keys)
    IN  {CommitText(SortedStr(K \cup Fresh(n)), m) :
            K \in {X \in SUBSET Seen : Cardinality(X) <= room},
            n \in 0..(NumHashes - Cardinality(Seen)),
            m \in messages}

\* The file parents() finds for a hash: its decompressed text, or NoFile
\* when os.path.isfile is false.
FileTexts(hash) ==
    IF hash \in DOMAIN objects THEN {objects[hash]}
    ELSE {NoFile} \cup
         {t \in Payloads :
             Cardinality(parents(t))
                 <= MaxEdges - EdgeCount(heap.graph, heap.graph.keys)}

Init ==
    /\ cwd \in {TopDir, SubDir, OutsideDir}
    /\ git_top \in {TopDir, RootDir}
    /\ refs \in {RefFiles(c) : c \in RefAssignments}
    /\ messages = {PlainMessage}
    /\ objects = << >>
    /\ pc = "find_git_directory"
    /\ exit_code = 0
    /\ git_dirpath = << >>
    /\ local_branches_dict = << >>
    /\ stack = {}
    /\ visited = {}
    /\ reads = << >>
    /\ heap = [graph |-> EmptyDict, copy |-> EmptyDict]
    /\ copied_graph = "copy"
    /\ queue = << >>
    /\ ordered_graph = << >>
    /\ i = 0
    /\ discontinuity = FALSE
    /\ stdout = << >>
    /\ stderr = << >>

\* ---------------------------------------------------- find_git_directory
\* Lines 72-84: walk upward from dir until <dir>/.git exists; the root
\* itself is never tried.  The empty string when nothing is found.
RECURSIVE WalkUp(_)
WalkUp(dir) ==
    IF dir = RootDir THEN << >>
    ELSE IF Exists(PathJoin(dir, DotGit)) THEN PathJoin(dir, DotGit)
    ELSE WalkUp(Dirname(dir))

FindGitDirectory ==
    /\ pc = "find_git_directory"
    /\ IF WalkUp(cwd) = << >>
       THEN /\ stderr' = Append(stderr, "Not inside a Git repository")
            /\ exit_code' = 1
            /\ pc' = "exited"
            /\ UNCHANGED git_dirpath
       ELSE /\ git_dirpath' = WalkUp(cwd)
            /\ pc' = "get_local_branches"
            /\ UNCHANGED << stderr, exit_code >>
    /\ UNCHANGED << fs, objects, local_branches_dict, build_vars, heap,
                    sort_vars, print_vars >>

\* ---------------------------------------------------- get_local_branches
\* Line 52: the path os.walk gives for the branch file b
BranchFilePath(dirpath, b) == PathJoin(dirpath \o RefsHeads, b)

\* Line 62: the branch name cut out of the path by the length of the
\* WORKING directory's refs/heads prefix
BranchName(file_path) == Drop(file_path, Len(cwd \o GitRefsHeads))

\* Lines 45-68
LocalBranches(dirpath) ==
    LET hash(b) == Strip(refs[b])
    IN  [h \in {hash(b) : b \in DOMAIN refs} |->
            {BranchName(BranchFilePath(dirpath, b)) :
                b \in {x \in DOMAIN refs : hash(x) = h}}]

GetLocalBranches ==
    /\ pc = "get_local_branches"
    /\ local_branches_dict' = LocalBranches(git_dirpath)
    /\ pc' = "make_commit_graph_init"
    /\ UNCHANGED << fs, objects, exit_code, git_dirpath, build_vars, heap,
                    sort_vars, print_vars, stderr >>

\* ----------------------------------------------------- make_commit_graph
\* Where the object of a hash lives in the repository
StorePath(hash) ==
    PathJoin(git_top, DotGit)
        \o << "/", "o", "b", "j", "e", "c", "t", "s", "/" >>
        \o Take(hash, 2) \o << "/" >> \o Drop(hash, 2)

\* Faulty variant: the file is taken to be there without looking.
IgnoreMissingFile(path, hash, text) == TRUE

\* Line 104: os.path.isfile(path_to_hash_file), for the file the
\* environment holds for the hash
FileExists(path, hash, text) == path = StorePath(hash) /\ text # NoFile

\* Lines 125-128
MakeCommitGraphInit ==
    /\ pc = "make_commit_graph_init"
    /\ stack' = DOMAIN local_branches_dict
    /\ visited' = {}
    /\ heap' = [heap EXCEPT !.graph = EmptyDict]
    /\ pc' = "make_commit_graph"
    /\ UNCHANGED << fs, objects, reads, exit_code, git_dirpath, local_branches_dict,
                    sort_vars, print_vars, stderr >>

\* Faulty variant: the popped hash is not put into visited.
ForgetVisited(visited_set, curr_hash) == visited_set

\* Line 136: visited.add(curr_hash)
MarkVisited(visited_set, curr_hash) == visited_set \cup {curr_hash}

\* How often parents() was called for the hash
Calls(hash) == IF hash \in DOMAIN reads THEN reads[hash] ELSE 0

\* Line 145: one more call parents(curr_hash)
CountCall(curr_hash) == (curr_hash :> Calls(curr_hash) + 1) @@ reads

\* Lines 138-141: result with a node for curr_hash
WithNode(result, curr_hash) ==
    IF Has(result, curr_hash) THEN result
    ELSE DictSet(result, curr_hash, CommitNode(curr_hash))

\* Lines 130-158, one iteration whose object file is there
MakeCommitGraphStep ==
    /\ pc = "make_commit_graph"
    /\ \E popped \in stack :
         LET curr_hash == Strip(popped)
         IN  IF curr_hash \in visited
             THEN /\ stack' = stack \ {popped}
                  /\ UNCHANGED << visited, reads, heap, objects >>
             ELSE \E text \in FileTexts(curr_hash) :
                    /\ FileExists(ObjectPath(cwd, curr_hash), curr_hash, text)
                    /\ \E order \in Orders(parents(text)) :
                         LET r == LinkParents(WithNode(heap.graph, curr_hash),
                                              stack \ {popped},
                                              MarkVisited(visited, curr_hash),
                                              curr_hash, order)
                         IN  /\ objects' = (curr_hash :> text) @@ objects
                             /\ visited' = MarkVisited(visited, curr_hash)
                             /\ reads' = CountCall(curr_hash)
                             /\ heap' = [heap EXCEPT !.graph = r.result]
                             /\ stack' = r.stack
    /\ UNCHANGED << fs, pc, exit_code, git_dirpath, local_branches_dict,
                    sort_vars, print_vars, stderr >>

\* Lines 130-145 and 104-109, the iteration whose object file is absent
MakeCommitGraphFail ==
    /\ pc = "make_commit_graph"
    /\ \E popped \in stack :
         LET curr_hash == Strip(popped)
         IN  /\ curr_hash \notin visited
             /\ \E text \in FileTexts(curr_hash) :
                  /\ ~FileExists(ObjectPath(cwd, curr_hash), curr_hash, text)
                  /\ objects' =
                         IF ObjectPath(cwd, curr_hash) = StorePath(curr_hash)
                         THEN (curr_hash :> text) @@ objects
                         ELSE objects
             /\ stack' = stack \ {popped}
             /\ visited' = MarkVisited(visited, curr_hash)
             /\ reads' = CountCall(curr_hash)
             /\ heap' = [heap EXCEPT !.graph = WithNode(heap.graph, curr_hash)]
    /\ stderr' = Append(stderr, "Object for hash not found")
    /\ exit_code' = 1
    /\ pc' = "exited"
    /\ UNCHANGED << fs, git_dirpath, local_branches_dict, sort_vars,
                    print_vars >>

\* Line 159
MakeCommitGraphReturn ==
    /\ pc = "make_commit_graph"
    /\ stack = {}
    /\ pc' = "topo_sort_init"
    /\ UNCHANGED << fs, objects, exit_code, git_dirpath, local_branches_dict,
                    build_vars, heap, sort_vars, print_vars, stderr >>

\* ------------------------------------------------------------- topo_sort
\* Faulty variant: copied_graph is the caller's graph itself.
AliasOfGraph == "graph"

\* Line 166: the object copy.deepcopy returns, a new one
DeepCopy == "copy"

\* Lines 163-172
TopoSortInit ==
    /\ pc = "topo_sort_init"
    /\ copied_graph' = DeepCopy
    /\ heap' = [heap EXCEPT ![DeepCopy] = heap.graph]
    /\ queue' = InitialQueue(heap.graph)
    /\ ordered_graph' = << >>
    /\ pc' = "topo_sort"
    /\ UNCHANGED << fs, objects, exit_code, git_dirpath, local_branches_dict,
                    build_vars, print_vars, stderr >>

\* Lines 174-186, one iteration
TopoSortStep ==
    /\ pc = "topo_sort"
    /\ queue # << >>
    /\ LET curr_hash == Head(queue)
       IN  \E order \in Orders(heap[copied_graph].node[curr_hash].parents) :
             LET r == ReleaseParents(heap[copied_graph], Tail(queue),
                                     curr_hash, order)
             IN  /\ heap' = [heap EXCEPT ![copied_graph] = r.graph]
                 /\ queue' = r.queue
                 /\ ordered_graph' = Append(ordered_graph, curr_hash)
    /\ UNCHANGED << fs, objects, pc, exit_code, git_dirpath,
                    local_branches_dict, build_vars, copied_graph,
                    print_vars, stderr >>

\* Faulty variant: the length check is left out.
NeverCycle(result, graph) == FALSE

\* Line 189

HasCycle(result, graph) == Len(result) # Len(graph.keys)

\* Lines 188-194, the abort
TopoSortCycle ==
    /\ pc = "topo_sort"
    /\ queue = << >>
    /\ HasCycle(ordered_graph, heap.graph)
    /\ stderr' = Append(stderr, "Cycle detected in graph")
    /\ exit_code' = 1
    /\ pc' = "exited"
    /\ UNCHANGED << fs, objects, git_dirpath, local_branches_dict, build_vars,
                    heap, sort_vars, print_vars >>

\* Lines 188-196, the return
TopoSortReturn ==
    /\ pc = "topo_sort"
    /\ queue = << >>
    /\ ~HasCycle(ordered_graph, heap.graph)
    /\ pc' = "print_topo_sort"
    /\ UNCHANGED << fs, objects, exit_code, git_dirpath, local_branches_dict,
                    build_vars, heap, sort_vars, print_vars, stderr >>

\* ------------------------------------------------------- print_topo_sort
\* print(text): the lines that text and the newline print adds make
PrintedLines(text) == Split(text, NL)

\* Faulty variant: the line opens with = and lists no child.
StickyStartBare(order) == << "=" >>

\* Lines 207-208 for the children taken in the order `order`
StickyStart(order) == << "=" >> \o Join(<< SP >>, order)

\* Faulty variant: the names joined in an order other than the sorted one.
BranchNamesUnsorted(names) ==
    Join(<< SP >>,
         CHOOSE o \in Orders(names) :
             o # SortedStr(names) \/ Cardinality(names) < 2)

\* Line 212
BranchNamesText(names) == Join(<< SP >>, SortedStr(names))

\* Lines 211-215
CommitLine(curr_hash) ==
    IF curr_hash \in DOMAIN local_branches_dict
    THEN curr_hash \o << SP >> \o BranchNamesText(local_branches_dict[curr_hash])
    ELSE curr_hash

\* Faulty variants of the discontinuity test: the next commit looked up in
\* the children, no lookup at all, and no separator for a root.
StickyUnlessChild(k) ==
    /\ k + 1 < Len(ordered_graph)
    /\ ordered_graph[k + 2] \notin commit_graph.node[ordered_graph[k + 1]].children

StickyAlways(k) == k + 1 < Len(ordered_graph)

StickyIfParents(k) ==
    /\ k + 1 < Len(ordered_graph)
    /\ commit_graph.node[ordered_graph[k + 1]].parents # {}
    /\ ordered_graph[k + 2] \notin commit_graph.node[ordered_graph[k + 1]].parents

\* Faulty variant: the last commit is closed with a separator too.
StickyAfterLast(k) ==
    \/ k + 1 >= Len(ordered_graph)
    \/ ordered_graph[k + 2] \notin commit_graph.node[ordered_graph[k + 1]].parents

\* Lines 218-220
HasStickyEnd(k) ==
    /\ k + 1 < Len(ordered_graph)
    /\ ordered_graph[k + 2] \notin commit_graph.node[ordered_graph[k + 1]].parents

\* Lines 222-223 for the parents taken in the order `order`
StickyEnd(order) == Join(<< SP >>, order) \o << "=", NL >>

\* Lines 201-223, one iteration
PrintStep ==
    /\ pc = "print_topo_sort"
    /\ i < Len(ordered_graph)
    /\ LET curr_hash == ordered_graph[i + 1]
           node == commit_graph.node[curr_hash]
       IN  \E corder \in (IF discontinuity THEN Orders(node.children)
                          ELSE {<< >>}) :
             \E porder \in (IF HasStickyEnd(i) THEN Orders(node.parents)
                            ELSE {<< >>}) :
               stdout' =
                   stdout
                   \o (IF discontinuity THEN PrintedLines(StickyStart(corder))
                       ELSE << >>)
                   \o PrintedLines(CommitLine(curr_hash))
                   \o (IF HasStickyEnd(i) THEN PrintedLines(StickyEnd(porder))
                       ELSE << >>)
    /\ discontinuity' = HasStickyEnd(i)
    /\ i' = i + 1
    /\ UNCHANGED << fs, objects, pc, exit_code, git_dirpath,
                    local_branches_dict, build_vars, heap, sort_vars, stderr >>

\* The return to the driver and the normal end of the process
PrintReturn ==
    /\ pc = "print_topo_sort"
    /\ i = Len(ordered_graph)
    /\ exit_code' = 0
    /\ pc' = "exited"
    /\ UNCHANGED << fs, objects, git_dirpath, local_branches_dict, build_vars,
                    heap, sort_vars, print_vars, stderr >>

\* ---------------------------------------------------------- specification
Next ==
    \/ FindGitDirectory
    \/ GetLocalBranches
    \/ MakeCommitGraphInit
    \/ MakeCommitGraphStep
    \/ MakeCommitGraphFail
    \/ MakeCommitGraphReturn
    \/ TopoSortInit
    \/ TopoSortStep
    \/ TopoSortCycle
    \/ TopoSortReturn
    \/ PrintStep
    \/ PrintReturn

Spec == Init /\ [][Next]_vars

\* The same program over a store whose commit messages may hold the word
\* parent, started in the repository's top directory.
ReaderInit ==
    /\ cwd = TopDir
    /\ git_top = TopDir
    /\ refs \in {RefFiles(c) : c \in RefAssignments}
    /\ messages = {PlainMessage, ProseMessage}
    /\ objects = << >>
    /\ pc = "find_git_directory"
    /\ exit_code = 0
    /\ git_dirpath = << >>
    /\ local_branches_dict = << >>
    /\ stack = {}
    /\ visited = {}
    /\ reads = << >>
    /\ heap = [graph |-> EmptyDict, copy |-> EmptyDict]
    /\ copied_graph = "copy"
    /\ queue = << >>
    /\ ordered_graph = << >>
    /\ i = 0
    /\ discontinuity = FALSE
    /\ stdout = << >>
    /\ stderr = << >>

ReaderSpec == ReaderInit /\ [][Next]_vars

\* ----------------------------------------------------------------- claims
Nodes(graph) == DOMAIN graph.node

ParentsOfAll(graph, S) == UNION {graph.node[h].parents : h \in S}

RECURSIVE Closure(_, _, _)
Closure(graph, S, n) ==
    IF n = 0 THEN S
    ELSE Closure(graph, S \cup ParentsOfAll(graph, S), n - 1)

\* Every node reachable from h by one or more parent links
Ancestors(graph, h) ==
    Closure(graph, graph.node[h].parents, Cardinality(Nodes(graph)))

Acyclic(graph) == \A h \in Nodes(graph) : h \notin Ancestors(graph, h)

MutualInverse(graph) ==
    \A n, p \in Nodes(graph) :
        p \in graph.node[n].parents <=> n \in graph.node[p].children

\* topo_sort's loop has ended: result is what topo_sort has to return
SortLoopDone ==
    \/ pc = "topo_sort" /\ queue = << >>
    \/ pc = "print_topo_sort"
    \/ pc = "exited" /\ exit_code = 0

Positions(h) == {k \in 1..Len(ordered_graph) : ordered_graph[k] = h}

\* C1: for an acyclic, mutually inverse graph the sequence topo_sort ends
\* with holds every commit that has or is a parent, and each commit at a
\* strictly earlier index than each of its parents.
C1_Precedence ==
    (SortLoopDone /\ Acyclic(commit_graph) /\ MutualInverse(commit_graph)) =>
        \A c \in Nodes(commit_graph) :
            \A p \in commit_graph.node[c].parents :
                /\ Positions(c) # {}
                /\ Positions(p) # {}
                /\ \A kc \in Positions(c), kp \in Positions(p) : kc < kp

\* A sorted graph with a merge commit whose parents are themselves linked
C1_Witness ==
    /\ pc = "print_topo_sort"
    /\ \E c, p, q \in Nodes(commit_graph) :
         /\ p # q
         /\ {p, q} \subseteq commit_graph.node[c].parents
         /\ q \in commit_graph.node[p].parents

\* C2: for an acyclic graph the sequence topo_sort ends with holds every
\* key of the graph exactly once and nothing else.
C2_Permutation ==
    (SortLoopDone /\ Acyclic(commit_graph)) =>
        /\ Len(ordered_graph) = Cardinality(Nodes(commit_graph))
        /\ {ordered_graph[k] : k \in 1..Len(ordered_graph)} = Nodes(commit_graph)

\* A sorted graph of NumHashes commits in which one commit has two children
C2_Witness ==
    /\ pc = "print_topo_sort"
    /\ Len(ordered_graph) = NumHashes
    /\ \E h \in Nodes(commit_graph) :
         Cardinality(commit_graph.node[h].children) = 2

\* Every object reached was there: graph building ran to its end
AllRead ==
    \A h \in Nodes(commit_graph) : h \in DOMAIN objects /\ objects[h] # NoFile

\* C3: once the discovered graph holds a cycle, print_topo_sort is never
\* reached and nothing is printed; the sort loop ends short of the node
\* count, and the run, if graph building completed, ends with exit code 1
\* in topo_sort's cycle check.
C3_CycleAborts ==
    ~Acyclic(commit_graph) =>
        /\ pc # "print_topo_sort"
        /\ stdout = << >>
        /\ (pc = "topo_sort" /\ queue = << >>) =>
               Len(ordered_graph) # Cardinality(Nodes(commit_graph))
        /\ pc = "exited" => exit_code = 1
        /\ (pc = "exited" /\ AllRead) =>
               stderr = << "Cycle detected in graph" >>

\* A's parent is B and B's parent is A, and the run has ended
C3_Witness ==
    /\ pc = "exited"
    /\ exit_code = 1
    /\ stderr = << "Cycle detected in graph" >>
    /\ \E a, b \in Nodes(commit_graph) :
         /\ a # b
         /\ commit_graph.node[a].parents = {b}
         /\ commit_graph.node[b].parents = {a}

\* The run printed everything and ended normally
Done == pc = "exited" /\ exit_code = 0

\* Reading standard output back: a `<parents>=` line ends with =, a
\* `=<children>` line starts with =, a commit line does neither.
EndsSticky(line) == line # << >> /\ line[Len(line)] = "="

StartsSticky(line) == line # << >> /\ line[1] = "="

IsCommitLine(line) ==
    line # << >> /\ line[1] # "=" /\ line[Len(line)] # "="

\* The indexes of the commit lines among the first n lines, in order
RECURSIVE CommitIndexes(_)
CommitIndexes(n) ==
    IF n = 0 THEN << >>
    ELSE IF IsCommitLine(stdout[n]) THEN Append(CommitIndexes(n - 1), n)
    ELSE CommitIndexes(n - 1)

CommitAt == CommitIndexes(Len(stdout))

\* The hash a commit line starts with
HashOfLine(line) == Split(line, SP)[1]

\* The indexes at which a discontinuity pair starts: `<parents>=`, a blank
\* line, `=<children>`
PairStarts ==
    {k \in 1..(Len(stdout) - 2) :
        /\ EndsSticky(stdout[k])
        /\ stdout[k + 1] = << >>
        /\ StartsSticky(stdout[k + 2])}

SeparatorLines == {k \in 1..Len(stdout) : ~IsCommitLine(stdout[k])}

Roots(graph) == {h \in Nodes(graph) : graph.node[h].parents = {}}

\* Every node has at most one parent and one child, and there are n roots:
\* the graph is n disjoint root-to-tip chains.
Chains(graph, n) ==
    /\ Acyclic(graph)
    /\ MutualInverse(graph)
    /\ \A h \in Nodes(graph) :
         /\ Cardinality(graph.node[h].parents) <= 1
         /\ Cardinality(graph.node[h].children) <= 1
    /\ Cardinality(Roots(graph)) = n

\* The root of the chain h is on
RootOf(graph, h) ==
    CHOOSE r \in Roots(graph) : r = h \/ r \in Ancestors(graph, h)

\* The positions of the ordered sequence after which the next commit is on
\* the other chain
Switches ==
    {k \in 1..(Len(ordered_graph) - 1) :
        RootOf(commit_graph, ordered_graph[k])
            # RootOf(commit_graph, ordered_graph[k + 1])}

\* C4 as claimed: two disjoint chains give exactly one discontinuity pair,
\* with one whole chain printed before it and the other after it.
C4_OneSeam ==
    (Done /\ Chains(commit_graph, 2)) =>
        /\ Cardinality(PairStarts) = 1
        /\ Cardinality(SeparatorLines) = 3
        /\ Cardinality(Switches) = 1

\* C4 amended: two disjoint chains give one discontinuity pair at every
\* switch between the chains and no other separator line; that is exactly
\* one pair, right after the first commit line, when the chain emitted
\* first is a single commit, and at least two pairs when it is longer.
C4_PairPerSwitch ==
    (Done /\ Chains(commit_graph, 2)) =>
        /\ Cardinality(PairStarts) = Cardinality(Switches)
        /\ Cardinality(SeparatorLines) = 3 * Cardinality(Switches)
        /\ \A k \in Switches :
             /\ k <= Len(CommitAt)
             /\ CommitAt[k] + 1 \in PairStarts
        /\ IF commit_graph.node[ordered_graph[1]].parents = {}
           THEN PairStarts = {2}
           ELSE Cardinality(PairStarts) >= 2

\* Two chains printed, the one emitted first the longer: its tip, then the
\* other chain, then its root
C4_Witness ==
    /\ Done
    /\ Chains(commit_graph, 2)
    /\ Len(ordered_graph) >= 3
    /\ commit_graph.node[ordered_graph[1]].parents # {}
    /\ Cardinality(PairStarts) >= 2

\* C5: a single chain is printed tip first, each commit directly followed
\* by its only parent, one commit line per commit and no other line.
C5_ChainNoSeparators ==
    (Done /\ Chains(commit_graph, 1)) =>
        /\ Len(stdout) = Cardinality(Nodes(commit_graph))
        /\ Len(ordered_graph) = Len(stdout)
        /\ commit_graph.node[ordered_graph[1]].children = {}
        /\ \A k \in 1..Len(stdout) :
             /\ IsCommitLine(stdout[k])
             /\ HashOfLine(stdout[k]) = ordered_graph[k]
             /\ k < Len(stdout) =>
                    commit_graph.node[ordered_graph[k]].parents
                        = {ordered_graph[k + 1]}

\* A chain of NumHashes commits, printed
C5_Witness ==
    /\ Done
    /\ Chains(commit_graph, 1)
    /\ Len(stdout) = NumHashes

\* C6: a printed root commit that is not the last of the sequence is
\* followed by the line `=` and a blank line, and the next commit, once
\* printed, comes right after an `=<children>` line of its own children.
C6_RootDiscontinuity ==
    pc \in {"print_topo_sort", "exited"} =>
        \A k \in 1..i :
            (k < Len(ordered_graph)
             /\ commit_graph.node[ordered_graph[k]].parents = {}) =>
                /\ Len(CommitAt) >= k
                /\ Len(stdout) >= CommitAt[k] + 2
                /\ stdout[CommitAt[k] + 1] = << "=" >>
                /\ stdout[CommitAt[k] + 2] = << >>
                /\ k < i =>
                     /\ Len(CommitAt) >= k + 1
                     /\ CommitAt[k + 1] = CommitAt[k] + 4
                     /\ \E o \in Orders(commit_graph.node[ordered_graph[k + 1]].children) :
                          stdout[CommitAt[k] + 3] = << "=" >> \o Join(<< SP >>, o)

\* A root was printed before a commit that has a child
C6_Witness ==
    /\ Done
    /\ \E k \in 1..(Len(ordered_graph) - 1) :
         /\ commit_graph.node[ordered_graph[k]].parents = {}
         /\ commit_graph.node[ordered_graph[k + 1]].children # {}

\* C7: once an object file of the store was found absent, the run is over
\* with exit code 1 and the not-found message, topo_sort never started
\* (no copy, no queue, no result) and nothing was printed.
C7_MissingObjectAborts ==
    (\E h \in DOMAIN objects : objects[h] = NoFile) =>
        /\ pc = "exited"
        /\ exit_code = 1
        /\ stderr = << "Object for hash not found" >>
        /\ heap.copy = EmptyDict
        /\ queue = << >>
        /\ ordered_graph = << >>
        /\ i = 0
        /\ stdout = << >>

\* The absent object is an ancestor found after another commit was linked
C7_Witness ==
    /\ pc = "exited"
    /\ \E h \in DOMAIN objects :
         /\ objects[h] = NoFile
         /\ h \notin DOMAIN local_branches_dict
         /\ commit_graph.node[h].children # {}

\* The hashes of the payload's lines that begin with the token parent
ParentLineHashes(text) ==
    LET lines == Split(text, NL)
        words(k) == Split(lines[k], SP)
    IN  {words(k)[2] :
            k \in {j \in 1..Len(lines) :
                      Len(words(j)) >= 2 /\ words(j)[1] = PARENT}}

\* C8 as claimed: parents() returns exactly the hashes of the payload's
\* lines that begin with the token parent, for every object file read.
C8_ParentLinesOnly ==
    \A h \in DOMAIN objects :
        objects[h] # NoFile =>
            parents(objects[h]) = ParentLineHashes(objects[h])

\* C9: every commit line printed so far is the hash alone when the hash has
\* no branch, and otherwise the hash, one space and its branch names in
\* ascending order with one space between them.
C9_BranchAnnotation ==
    \A k \in 1..i :
        /\ Len(CommitAt) >= k
        /\ LET h == ordered_graph[k]
               line == stdout[CommitAt[k]]
           IN  IF h \in DOMAIN local_branches_dict
               THEN \E o \in Orders(local_branches_dict[h]) :
                      /\ \A a, b \in 1..Len(o) : a < b => StrLess(o[a], o[b])
                      /\ line = h \o << SP >> \o Join(<< SP >>, o)
               ELSE line = h

\* A commit with two branches and a commit with none were printed
C9_Witness ==
    /\ Done
    /\ \E h \in Nodes(commit_graph) :
         /\ h \in DOMAIN local_branches_dict
         /\ Cardinality(local_branches_dict[h]) = 2
    /\ \E h \in Nodes(commit_graph) : h \notin DOMAIN local_branches_dict

\* C10: no step of topo_sort, its abort included, changes the graph it
\* was passed.
C10_GraphUnchanged ==
    [][(pc \in {"topo_sort_init", "topo_sort"}) => (heap.graph = heap'.graph)]_vars

\* topo_sort returned, its copy lost a parent link the graph still has
C10_Witness ==
    /\ pc = "print_topo_sort"
    /\ \E h \in Nodes(commit_graph) :
         /\ commit_graph.node[h].parents # {}
         /\ heap.copy.node[h].parents = {}
         /\ \A p \in commit_graph.node[h].parents :
              /\ h \in commit_graph.node[p].children
              /\ h \notin heap.copy.node[p].children

\* C11: from the first iteration of make_commit_graph on, after every
\* completed iteration and on return, p is a parent of n in the graph
\* exactly when p is a key of the graph and n is a child of p; every hash
\* named as a parent or as a child is a key.
C11_MutualInverse ==
    /\ \A n \in Nodes(commit_graph) :
         \A p \in commit_graph.node[n].parents :
             /\ Has(commit_graph, p)
             /\ n \in commit_graph.node[p].children
    /\ \A p \in Nodes(commit_graph) :
         \A n \in commit_graph.node[p].children :
             /\ Has(commit_graph, n)
             /\ p \in commit_graph.node[n].parents

\* make_commit_graph returned a graph with a merge commit, one of whose
\* parents has a second child
C11_Witness ==
    /\ pc = "topo_sort_init"
    /\ \E n \in Nodes(commit_graph) :
         /\ Cardinality(commit_graph.node[n].parents) = 2
         /\ \E p \in commit_graph.node[n].parents :
              Cardinality(commit_graph.node[p].children) = 2

\* make_commit_graph ran to its return statement
BuildReturned ==
    \/ pc \in {"topo_sort_init", "topo_sort", "print_topo_sort"}
    \/ pc = "exited" /\ exit_code = 0
    \/ pc = "exited" /\ stderr = << "Cycle detected in graph" >>

\* What parents() returns for the hashes of S whose object file is there
ReaderParents(S) ==
    UNION {parents(objects[h]) :
              h \in {x \in S \cap DOMAIN objects : objects[x] # NoFile}}

RECURSIVE StoreClosure(_, _)
StoreClosure(S, n) ==
    IF n = 0 THEN S ELSE StoreClosure(S \cup ReaderParents(S), n - 1)

\* The hashes reachable from the branch tips through parents()
Reachable == StoreClosure(DOMAIN local_branches_dict, NumHashes)

\* C12: when make_commit_graph returns, its graph has as keys exactly the
\* hashes reachable from the branch tips through the parent relation, each
\* one read from the store, and the parents of each node are the set
\* parents() returns for its hash.
C12_ReachableGraph ==
    (pc = "topo_sort_init") =>
        /\ AllRead
        /\ Nodes(commit_graph) = Reachable
        /\ \A h \in Nodes(commit_graph) :
             commit_graph.node[h].parents = parents(objects[h])

\* Returned: a tip, a commit that is both a tip and a parent, and a commit
\* that is only a parent
C12_Witness ==
    /\ pc = "topo_sort_init"
    /\ \E t, m, a \in Nodes(commit_graph) :
         /\ {t, m} \subseteq DOMAIN local_branches_dict
         /\ a \notin DOMAIN local_branches_dict
         /\ m \in commit_graph.node[t].parents
         /\ a \in commit_graph.node[m].parents

\* The hashes of the store make_commit_graph has not visited yet
Unvisited == Hashes \ visited

\* C13: every iteration of make_commit_graph's loop either visits a hash
\* not visited before or drops a visited hash from the stack, so that over
\* a finite store, cycles included, the loop runs out of work and the stack
\* is empty when it ends; and parents() is called at most once for every
\* hash.
C13_Terminates ==
    [][(pc = "make_commit_graph") =>
          (/\ \A h \in DOMAIN reads' : reads'[h] <= 1
           /\ visited' \subseteq Hashes
           /\ (pc' = "make_commit_graph") =>
                  \/ Cardinality(Unvisited') < Cardinality(Unvisited)
                  \/ /\ Unvisited' = Unvisited
                     /\ Cardinality(stack') < Cardinality(stack)
           /\ (pc' = "topo_sort_init") => (stack' = {}))]_vars

\* Returned from a store in which NumHashes commits form a cycle, each read
\* once
C13_Witness ==
    /\ pc = "topo_sort_init"
    /\ stack = {}
    /\ ~Acyclic(commit_graph)
    /\ Cardinality(DOMAIN reads) = NumHashes
    /\ \A h \in DOMAIN reads : reads[h] = 1 /\ h \in Ancestors(commit_graph, h)

\* The k-th commit line is directly followed by a `<parents>=` line and a
\* blank line
SeparatorAfter(k) ==
    /\ Len(stdout) >= CommitAt[k] + 2
    /\ EndsSticky(stdout[CommitAt[k] + 1])
    /\ stdout[CommitAt[k] + 2] = << >>

\* C14: every commit printed so far that has a successor in the ordered
\* sequence is directly followed by the line of its parents and `=` plus a
\* blank line exactly when the successor is not one of its parents in the
\* graph make_commit_graph returned; nothing follows the last commit's
\* line.
C14_TrailingSeparator ==
    pc \in {"print_topo_sort", "exited"} =>
        \A k \in 1..i :
            /\ Len(CommitAt) >= k
            /\ HashOfLine(stdout[CommitAt[k]]) = ordered_graph[k]
            /\ IF k < Len(ordered_graph)
               THEN /\ SeparatorAfter(k) <=>
                         ordered_graph[k + 1]
                             \notin commit_graph.node[ordered_graph[k]].parents
                    /\ SeparatorAfter(k) =>
                         \E o \in Orders(commit_graph.node[ordered_graph[k]].parents) :
                             stdout[CommitAt[k] + 1] = Join(<< SP >>, o) \o << "=" >>
               ELSE Len(stdout) = CommitAt[k]

\* All printed: a commit followed by its parent, and a commit with a parent
\* followed by a commit that is not its parent
C14_Witness ==
    /\ Done
    /\ \E k \in 1..(Len(ordered_graph) - 1) :
         ordered_graph[k + 1] \in commit_graph.node[ordered_graph[k]].parents
    /\ \E k \in 1..(Len(ordered_graph) - 1) :
         /\ commit_graph.node[ordered_graph[k]].parents # {}
         /\ ordered_graph[k + 1] \notin commit_graph.node[ordered_graph[k]].parents

\* The indexes of the blank lines of standard output
BlankLines == {j \in 1..Len(stdout) : stdout[j] = << >>}

\* C15: after every print iteration, every line that is not a commit line
\* belongs to one group `<parents>=`, blank line, `=<children>`: a blank
\* line comes right after a commit line and a `<parents>=` line, and what
\* follows it, once printed, is one `=<children>` line of the children the
\* graph holds for the commit whose line comes next; the discontinuity
\* flag is set exactly while such a group is open, and is false when
\* printing has ended.
C15_BracketingPairs ==
    pc \in {"print_topo_sort", "exited"} =>
        /\ \A j \in 1..Len(stdout) :
             IsCommitLine(stdout[j]) \/ {j - 1, j, j + 1} \cap BlankLines # {}
        /\ \A j \in BlankLines :
             /\ j >= 3
             /\ IsCommitLine(stdout[j - 2])
             /\ EndsSticky(stdout[j - 1])
             /\ j < Len(stdout) =>
                  /\ Len(stdout) >= j + 2
                  /\ IsCommitLine(stdout[j + 2])
                  /\ \E o \in Orders(commit_graph.node[HashOfLine(stdout[j + 2])].children) :
                       stdout[j + 1] = << "=" >> \o Join(<< SP >>, o)
        /\ discontinuity <=> Len(stdout) \in BlankLines
        /\ (pc = "exited" \/ i = Len(ordered_graph)) => ~discontinuity

\* All printed, with a pair whose `<parents>=` line names a parent and a
\* pair whose `=<children>` line names a child
C15_Witness ==
    /\ Done
    /\ \E j \in BlankLines : Len(stdout[j - 1]) > 1
    /\ \E j \in BlankLines :
         commit_graph.node[HashOfLine(stdout[j + 2])].children # {}

\* The branches of a hash, named relative to the repository's refs/heads
BranchesAt(h) == {b \in DOMAIN refs : Strip(refs[b]) = h}

\* find_git_directory returned the .git of a proper ancestor of the
\* working directory
FoundAbove ==
    /\ pc \notin {"find_git_directory", "get_local_branches"}
    /\ git_dirpath # << >>
    /\ Dirname(git_dirpath) # cwd

\* C16 as claimed: in a run started below the repository's top directory
\* the branch names are the ones relative to the repository's refs/heads,
\* and objects are looked up in the repository's store, so that the run
\* aborts for a missing object only when the store lacks one, as a run
\* started in the top directory does.
C16_SameFromSubdirectory ==
    FoundAbove =>
        /\ \A h \in DOMAIN local_branches_dict :
             local_branches_dict[h] = BranchesAt(h)
        /\ stderr = << "Object for hash not found" >> =>
             \E h \in DOMAIN objects : objects[h] = NoFile

\* C17 as claimed: every node of the graph make_commit_graph returns carries
\* the hash it is stored under, whether it was made for a popped hash or
\* for a parent, and the graph holds one node per hash met.
C17_NodeCarriesItsKey ==
    BuildReturned =>
        /\ \A h \in Nodes(commit_graph) :
             commit_graph.node[h].commit_hash = h
        /\ Len(commit_graph.keys) = Cardinality(Nodes(commit_graph))

====
